---- MODULE Spec2Model ----
(***************************************************************************)
(* A model of the TodoFormModal React component (a controlled modal form   *)
(* for creating or editing one todo item).                                 *)
(*                                                                         *)
(* The component is controlled: the props isOpen, onClose, onSave and      *)
(* editingTodo belong to the parent.  The model keeps the props of the     *)
(* last committed render, the component's own state (formData), the        *)
(* passive effects that the last commit scheduled and that have not run    *)
(* yet, the keydown listeners registered on the document, the pending      *)
(* focus timers, and the callbacks invoked by the last event (out).        *)
(*                                                                         *)
(* Strings the code inspects (title) are sequences of characters; date     *)
(* strings are tuples: <<>> is '', <<d>> is the date-only 'YYYY-MM-DD' of  *)
(* day number d, <<d, h, off>> is the date-time of day d, hour h, with the *)
(* zone offset off hours ('...T..:00:00+off:00'; off = 0 is 'Z').          *)
(***************************************************************************)
EXTENDS Integers, Sequences, FiniteSets, Bags, TLC

\* ---------------------------------------------------------------- bounds
MaxTimers == 1   \* focus timeouts that may be pending at the same time

\* ------------------------------------------------------- value domains
\* titles: empty, blank, plain, and with a blank before the text
Titles == {<<>>, <<" ">>, <<"a">>, <<" ", "a">>}
Descriptions == {<<>>, <<"a">>}
Priority == {"low", "medium", "high"}
Status == {"pending", "in-progress", "completed"}
\* what the date input can hold: nothing, or the date of day 1
PickedDates == {<<>>, <<1>>}
\* the identities of the onClose functions the parent passes
Cbs == {1, 2}

NoTodo == [none |-> TRUE]
NoCb == 0

\* interface Todo: the entities the parent may pass as editingTodo.  Entity
\* t1 has no due date, a date-time in UTC ('Z') or a date-time with the zone
\* offset -05:00; entity t2 has a date-only due date and a title that starts
\* with a blank.
Todo == {[id |-> "t1", title |-> <<"a">>, description |-> <<"a">>,
          completed |-> TRUE, dueDate |-> dd, priority |-> "high",
          status |-> "completed", createdAt |-> <<1, 22, 0>>,
          updatedAt |-> <<1, 22, 0>>] : dd \in {<<>>, <<1, 22, 0>>, <<1, 22, -5>>}}
        \cup
        {[id |-> "t2", title |-> <<" ", "a">>,
          description |-> <<>>, completed |-> FALSE, dueDate |-> <<1>>,
          priority |-> "low", status |-> "in-progress",
          createdAt |-> <<1, 22, 0>>, updatedAt |-> <<1, 22, 0>>]}

HasTodo(et) == "id" \in DOMAIN et

FormFields == {"title", "description", "dueDate", "priority", "status"}

\* interface TodoFormState
TodoFormState == [title : Titles, description : Descriptions,
                  dueDate : {<<>>, <<1>>, <<2>>},
                  priority : Priority, status : Status]

defaultFormState == [title |-> <<>>, description |-> <<>>, dueDate |-> <<>>,
                     priority |-> "medium", status |-> "pending"]

\* ------------------------------------------------- pure parts of the code
RECURSIVE TrimStart(_)
TrimStart(s) == IF s # <<>> /\ Head(s) = " " THEN TrimStart(Tail(s)) ELSE s

RECURSIVE TrimEnd(_)
TrimEnd(s) == IF s # <<>> /\ s[Len(s)] = " "
              THEN TrimEnd(SubSeq(s, 1, Len(s) - 1)) ELSE s

\* String.prototype.trim
Trim(s) == TrimEnd(TrimStart(s))

\* new Date(s): the instant, in hours since the start of day 0 in UTC.  A
\* date-only string is UTC midnight; a date-time is taken at its offset.
DateParse(s) == IF Len(s) = 1 THEN s[1] * 24 ELSE s[1] * 24 + s[2] - s[3]

\* new Date(s).toISOString().split('T')[0]: the UTC calendar date
toISODate(s) == <<DateParse(s) \div 24>>

\* variant: the seeding effect spreads the whole todo into the form
seedFormData_SpreadTodo(et) ==
    IF HasTodo(et)
    THEN [et EXCEPT !.dueDate =
              IF et.dueDate # <<>> THEN toISODate(et.dueDate) ELSE <<>>]
    ELSE defaultFormState

\* the object the seeding effect passes to setFormData
seedFormData(et) ==
    IF HasTodo(et)
    THEN [title |-> et.title, description |-> et.description,
          dueDate |-> IF et.dueDate # <<>> THEN toISODate(et.dueDate) ELSE <<>>,
          priority |-> et.priority, status |-> et.status]
    ELSE defaultFormState

\* variant: the seeding effect depends on [editingTodo] only
seedDepsChanged_NoOpen(open0, et0, open1, et1, newRef) ==
    et0 # et1 \/ (newRef /\ HasTodo(et1))

\* dependency arrays: an effect is scheduled when a dependency differs
\* (Object.is) from the previous render's; a new object for the same todo
\* (newRef) differs.
seedDepsChanged(open0, et0, open1, et1, newRef) ==
    open0 # open1 \/ et0 # et1 \/ (newRef /\ HasTodo(et1))

\* variant: the keydown effect depends on [isOpen] only
keyDepsChanged_OpenOnly(open0, cb0, open1, cb1) == open0 # open1

keyDepsChanged(open0, cb0, open1, cb1) == open0 # open1 \/ cb0 # cb1

\* variant: the updater does not spread the previous state
handleChange_NoSpread(prev, name, value) ==
    [defaultFormState EXCEPT ![name] = value]

\* the updater handleChange passes to setFormData
handleChange(prev, name, value) == [prev EXCEPT ![name] = value]

\* variant: the title is tested without trim()
titleMissing_NoTrim(fd) == fd.title = <<>>

\* if (!formData.title.trim())
titleMissing(fd) == Trim(fd.title) = <<>>

\* variant: a new todo is given a generated id
todoToSave_FreshId(fd, et) ==
    [id |-> IF HasTodo(et) THEN et.id ELSE "uuid"]
        @@ [completed |-> (fd.status = "completed")] @@ fd

\* variant: when editing, completed is taken over from the entity
todoToSave_EntityCompleted(fd, et) ==
    IF HasTodo(et) THEN [id |-> et.id, completed |-> et.completed] @@ fd
    ELSE [completed |-> (fd.status = "completed")] @@ fd

\* the record handleSubmit builds; a later spread overrides an earlier one
todoToSave(fd, et) ==
    LET derived == [completed |-> (fd.status = "completed")] @@ fd
    IN  IF HasTodo(et) THEN [id |-> et.id] @@ derived ELSE derived

Alert == [type |-> "alert"]
OnSave(r) == [type |-> "onSave", rec |-> r]
OnClose(cb) == [type |-> "onClose", cb |-> cb]

\* variant: the modal is closed before the record is saved
handleSubmit_CloseFirst(fd, et, cb) ==
    IF titleMissing(fd) THEN <<Alert>>
    ELSE <<OnClose(cb), OnSave(todoToSave(fd, et))>>

\* variant: the record is saved and the modal is left open
handleSubmit_NoClose(fd, et, cb) ==
    IF titleMissing(fd) THEN <<Alert>> ELSE <<OnSave(todoToSave(fd, et))>>

\* the calls handleSubmit makes, in order
handleSubmit(fd, et, cb) ==
    IF titleMissing(fd) THEN <<Alert>>
    ELSE <<OnSave(todoToSave(fd, et)), OnClose(cb)>>

\* the calls one registered handleKeyDown makes for a key
handleKeyDown(key, cb) == IF key = "Escape" THEN <<OnClose(cb)>> ELSE <<>>

\* variant: the handler is added whether the modal is open or not
keydownEffect_Always(open, cb, ls) == ls (+) SetToBag({cb})

\* variant: the test of isOpen is inverted
keydownEffect_WhenClosed(open, cb, ls) ==
    IF ~open THEN ls (+) SetToBag({cb}) ELSE ls

\* the keydown effect's body: document.addEventListener when open; the
\* removeEventListener of the else branch names a function that was never
\* added and removes nothing
keydownEffect(open, cb, ls) == IF open THEN ls (+) SetToBag({cb}) ELSE ls

\* the handler this run of the keydown effect has added, if any
keydownOwn(open, cb) == IF open THEN cb ELSE NoCb

\* variant: the effect returns no cleanup
keydownCleanup_None(own, ls) == ls

\* the keydown effect's cleanup: removes the handler its run added
keydownCleanup(own, ls) == IF own # NoCb THEN ls (-) SetToBag({own}) ELSE ls

\* variant: focus() is called on the input whether it is rendered or not
focusTitle_NoGuard(m, open, f) == TRUE

\* titleInputRef.current?.focus(): the ref is null unless the form is
\* rendered, and then nothing is focused
focusTitle(m, open, f) == f \/ (m /\ open)

\* click targets and the React onClick handlers a click meets while it
\* bubbles from the target to the overlay
Targets == {"overlay", "content", "close-btn", "cancel-btn"}
ClickPath(target) ==
    CASE target = "overlay" -> <<"overlay">>
      [] target = "content" -> <<"content", "overlay">>
      [] target = "close-btn" -> <<"close-btn", "content", "overlay">>
      [] target = "cancel-btn" -> <<"cancel-btn", "content", "overlay">>

\* variant: no onClick stops the propagation
stopsPropagation_Never(el) == FALSE

\* onClick of modal-content calls e.stopPropagation()
stopsPropagation(el) == el = "content"

\* what the onClick of an element calls
onClick(el, cb) == IF el = "content" THEN <<>> ELSE <<OnClose(cb)>>

RECURSIVE Bubble(_, _)
Bubble(path, cb) ==
    IF path = <<>> THEN <<>>
    ELSE onClick(Head(path), cb)
         \o (IF stopsPropagation(Head(path)) THEN <<>> ELSE Bubble(Tail(path), cb))

\* ----------------------------------------------------------------- state
VARIABLES
    mounted,      \* the component is in the tree
    isOpen,       \* props of the last committed render
    editingTodo,
    onClose,
    formData,     \* useState
    seedPending,  \* the last commit scheduled the seeding effect; not run yet
    keyPending,   \* the last commit scheduled the keydown effect; not run yet
    listeners,    \* bag of the onClose captured by each document listener
    ownListener,  \* what the last run of the keydown effect added, or NoCb
    timers,       \* pending setTimeout(focus, 0) tasks
    focused,      \* the title input has the focus
    dirty,        \* a change event came since the last open or seeding
    discarded,    \* "dropped": the last close was a dismissal that dropped
                  \* edits; "reopened": the same editingTodo is open again
    ev,           \* "Escape" or "content" when the last step was that key
                  \* press or a click inside the content, else "-"
    out           \* the calls the last event made, in order

vars == <<mounted, isOpen, editingTodo, onClose, formData, seedPending,
          keyPending, listeners, ownListener, timers, focused, dirty,
          discarded, ev, out>>

\* the first render has been committed, closed; its effects are scheduled
Init ==
    /\ mounted = TRUE
    /\ isOpen = FALSE
    /\ editingTodo = NoTodo
    /\ onClose = 1
    /\ formData = defaultFormState
    /\ seedPending = TRUE
    /\ keyPending = TRUE
    /\ listeners = EmptyBag
    /\ ownListener = NoCb
    /\ timers = 0
    /\ focused = FALSE
    /\ dirty = FALSE
    /\ discarded = "no"
    /\ ev = "-"
    /\ out = <<>>

EffectsPending == seedPending \/ keyPending

\* the seeding effect's body does something only under if (isOpen)
SeedRuns == seedPending /\ isOpen

\* The state the pending passive effects leave (React runs them before it
\* renders again): the seeding effect sets formData and starts a timer, the
\* keydown effect runs the previous cleanup and then its body.
\* variant: the seeding effect has no else branch
FlushedFormData_EditOnly ==
    IF SeedRuns /\ HasTodo(editingTodo) THEN seedFormData(editingTodo)
    ELSE formData

FlushedFormData == IF SeedRuns THEN seedFormData(editingTodo) ELSE formData
FlushedTimers == IF SeedRuns THEN timers + 1 ELSE timers
FlushedListeners ==
    IF keyPending
    THEN keydownEffect(isOpen, onClose, keydownCleanup(ownListener, listeners))
    ELSE listeners
FlushedOwn == IF keyPending THEN keydownOwn(isOpen, onClose) ELSE ownListener

\* The parent's onClose (not part of the component): it clears its
\* "editor is open" flag, so the next render has isOpen = false.
ParentOnClose(open) == FALSE

Closes(calls) == \E i \in 1..Len(calls) : calls[i].type = "onClose"

\* ------------------------------------------------------- parent (props)
\* the parent opens the editor, for creation or for a todo
ParentOpen(et) ==
    /\ mounted /\ ~isOpen /\ ~EffectsPending
    /\ timers < MaxTimers
    /\ isOpen' = TRUE
    /\ editingTodo' = et
    /\ seedPending' = seedDepsChanged(isOpen, editingTodo, TRUE, et, FALSE)
    /\ keyPending' = keyDepsChanged(isOpen, onClose, TRUE, onClose)
    /\ dirty' = FALSE
    /\ discarded' = IF discarded = "dropped" /\ et = editingTodo
                    THEN "reopened" ELSE "no"
    /\ ev' = "-"
    /\ out' = <<>>
    /\ UNCHANGED <<mounted, onClose, formData, listeners, ownListener, timers,
                   focused>>

\* the parent renders again with another editingTodo (or a new object for
\* the same todo) and/or another onClose function
ParentRerender(et, newRef, cb) ==
    /\ mounted /\ ~EffectsPending
    /\ seedDepsChanged(isOpen, editingTodo, isOpen, et, newRef)
          \/ keyDepsChanged(isOpen, onClose, isOpen, cb)
    /\ (isOpen /\ seedDepsChanged(isOpen, editingTodo, isOpen, et, newRef))
          => timers < MaxTimers
    /\ editingTodo' = et
    /\ onClose' = cb
    /\ seedPending' = seedDepsChanged(isOpen, editingTodo, isOpen, et, newRef)
    /\ keyPending' = keyDepsChanged(isOpen, onClose, isOpen, cb)
    /\ discarded' = IF et = editingTodo THEN discarded ELSE "no"
    /\ ev' = "-"
    /\ out' = <<>>
    /\ UNCHANGED <<mounted, isOpen, formData, listeners, ownListener, timers,
                   focused, dirty>>

\* the parent removes the component: the effects' cleanups run
Unmount ==
    /\ mounted /\ ~EffectsPending
    /\ mounted' = FALSE
    /\ listeners' = keydownCleanup(ownListener, listeners)
    /\ ownListener' = NoCb
    /\ focused' = FALSE
    /\ ev' = "-"
    /\ out' = <<>>
    /\ UNCHANGED <<isOpen, editingTodo, onClose, formData, seedPending,
                   keyPending, timers, dirty, discarded>>

\* ------------------------------------------------------------ component
\* React runs the passive effects of the last commit
RunEffects ==
    /\ mounted /\ EffectsPending
    /\ formData' = FlushedFormData
    /\ timers' = FlushedTimers
    /\ listeners' = FlushedListeners
    /\ ownListener' = FlushedOwn
    /\ seedPending' = FALSE
    /\ keyPending' = FALSE
    /\ dirty' = (dirty /\ ~SeedRuns)
    /\ ev' = "-"
    /\ out' = <<>>
    /\ UNCHANGED <<mounted, isOpen, editingTodo, onClose, focused, discarded>>

Saves(calls) == \E i \in 1..Len(calls) : calls[i].type = "onSave"

\* What follows the handlers of the event e that made the calls: a call of
\* onClose while open makes the parent render with isOpen = false, after the
\* pending effects have run; otherwise nothing is rendered.
AfterCalls(e, calls) ==
    /\ ev' = e
    /\ out' = calls
    /\ IF Closes(calls) /\ mounted /\ isOpen
       THEN /\ isOpen' = ParentOnClose(isOpen)
            /\ formData' = FlushedFormData
            /\ timers' = FlushedTimers
            /\ listeners' = FlushedListeners
            /\ ownListener' = FlushedOwn
            /\ seedPending' = seedDepsChanged(isOpen, editingTodo, isOpen',
                                              editingTodo, FALSE)
            /\ keyPending' = keyDepsChanged(isOpen, onClose, isOpen', onClose)
            /\ dirty' = (dirty /\ ~SeedRuns)
            /\ discarded' = IF dirty /\ ~SeedRuns /\ ~Saves(calls)
                            THEN "dropped" ELSE "no"
       ELSE UNCHANGED <<isOpen, formData, timers, listeners, ownListener,
                        seedPending, keyPending, dirty, discarded>>
    /\ UNCHANGED <<mounted, editingTodo, onClose>>

\* a change event of the input called name: the updater is queued, the
\* pending effects run, then the queue is applied in order
Change(name, value) ==
    /\ mounted /\ isOpen
    /\ formData' = IF SeedRuns THEN FlushedFormData
                   ELSE handleChange(formData, name, value)
    /\ timers' = FlushedTimers
    /\ listeners' = FlushedListeners
    /\ ownListener' = FlushedOwn
    /\ seedPending' = FALSE
    /\ keyPending' = FALSE
    /\ dirty' = TRUE
    /\ ev' = "-"
    /\ out' = <<>>
    /\ UNCHANGED <<mounted, isOpen, editingTodo, onClose, focused, discarded>>

ChangeAny ==
    \/ \E v \in Titles : Change("title", v)
    \/ \E v \in Descriptions : Change("description", v)
    \/ \E v \in PickedDates : Change("dueDate", v)
    \/ \E v \in Priority : Change("priority", v)
    \/ \E v \in Status : Change("status", v)

\* the form's submit event
Submit ==
    /\ mounted /\ isOpen
    /\ AfterCalls("-", handleSubmit(formData, editingTodo, onClose))
    /\ focused' = IF titleMissing(formData) THEN TRUE
                  ELSE (focused /\ isOpen')

\* a pointer click on an element of the rendered modal
Click(target) ==
    /\ mounted /\ isOpen
    /\ AfterCalls(IF target = "content" THEN "content" ELSE "-",
                  Bubble(ClickPath(target), onClose))
    /\ focused' = (focused /\ isOpen')

RECURSIVE Dispatch(_, _)
\* a keydown event reaches every listener registered on the document
Dispatch(key, ls) ==
    IF ls = EmptyBag THEN <<>>
    ELSE LET cb == CHOOSE c \in BagToSet(ls) : TRUE
         IN  handleKeyDown(key, cb) \o Dispatch(key, ls (-) SetToBag({cb}))

KeyDown(key) ==
    /\ AfterCalls(IF key = "Escape" THEN "Escape" ELSE "-",
                  Dispatch(key, listeners))
    /\ focused' = (focused /\ isOpen')

\* a focus timeout fires: titleInputRef.current?.focus()
FocusTimer ==
    /\ timers > 0
    /\ timers' = timers - 1
    /\ focused' = focusTitle(mounted, isOpen, focused)
    /\ ev' = "-"
    /\ out' = <<>>
    /\ UNCHANGED <<mounted, isOpen, editingTodo, onClose, formData,
                   seedPending, keyPending, listeners, ownListener, dirty,
                   discarded>>

Next ==
    \/ \E et \in Todo \cup {NoTodo} : ParentOpen(et)
    \/ \E et \in Todo \cup {NoTodo}, newRef \in BOOLEAN, cb \in Cbs :
          ParentRerender(et, newRef, cb)
    \/ Unmount
    \/ RunEffects
    \/ ChangeAny
    \/ Submit
    \/ \E target \in Targets : Click(target)
    \/ \E key \in {"Escape", "Enter"} : KeyDown(key)
    \/ FocusTimer

Spec == Init /\ [][Next]_vars

\* React runs the passive effects of a commit, and the timers of the event
\* loop fire
FairSpec == Spec /\ WF_vars(RunEffects) /\ WF_vars(FocusTimer)

TypeOK ==
    /\ mounted \in BOOLEAN /\ isOpen \in BOOLEAN
    /\ editingTodo \in Todo \cup {NoTodo}
    /\ onClose \in Cbs
    /\ formData \in TodoFormState
    /\ timers \in 0..MaxTimers
    /\ ownListener \in Cbs \cup {NoCb}

\* ================================================================ claims
\* the controller of the specification: OPEN and CLOSED are the states in
\* which the effects of the open or close transition have run
OPEN == mounted /\ isOpen /\ ~EffectsPending
CLOSED == mounted /\ ~isOpen /\ ~EffectsPending

\* empty after trimming: the string has only blanks
Blank(s) == \A i \in 1..Len(s) : s[i] = " "

NumCalls(calls, t) == Cardinality({i \in 1..Len(calls) : calls[i].type = t})

SameFields(r, fd) ==
    \A f \in {"title", "description", "dueDate", "priority", "status"} :
        r[f] = fd[f]

\* C1: a submit while open with a title that is not empty after trimming
\* calls onSave exactly once, with the record of the form's fields, and then
\* onClose, in this order, and the controller is closed afterwards; no event
\* calls onSave more than once.
C1_SubmitSavesThenCloses ==
    [][ /\ Len(out') > 1 => NumCalls(out', "onSave") <= 1
        /\ (isOpen /\ ~Blank(formData.title) /\ Submit) =>
              /\ Len(out') = 2
              /\ out'[1].type = "onSave"
              /\ SameFields(out'[1].rec, formData)
              /\ out'[2] = OnClose(onClose)
              /\ ~isOpen' ]_vars

\* the scenario of the specification: create, title set, status completed
C1_Witness ==
    /\ ~isOpen /\ Len(out) = 2
    /\ out[1].type = "onSave" /\ out[2].type = "onClose"
    /\ out[1].rec = [title |-> <<"a">>, description |-> <<>>,
                      dueDate |-> <<>>, priority |-> "medium",
                      status |-> "completed", completed |-> TRUE]

\* C2: a submit with a title that is empty or has only blanks calls neither
\* onSave nor onClose, leaves every field of the form as it was and leaves
\* the controller open.
C2_BlankTitleRejected ==
    [][ (isOpen /\ Blank(formData.title) /\ Submit) =>
              /\ NumCalls(out', "onSave") = 0
              /\ NumCalls(out', "onClose") = 0
              /\ formData' = formData
              /\ isOpen' /\ mounted' ]_vars

C2_Witness ==
    /\ isOpen /\ out = <<Alert>>
    /\ formData.title = <<" ">>
    /\ formData.status = "completed" /\ formData.description = <<"a">>

\* C3: a record passed to onSave has an id field exactly when an editing
\* entity was supplied, and then the id is the entity's.
C3_IdIffEditing ==
    \A i \in 1..Len(out) : out[i].type = "onSave" =>
        /\ ("id" \in DOMAIN out[i].rec) <=> ("id" \in DOMAIN editingTodo)
        /\ ("id" \in DOMAIN editingTodo) => out[i].rec.id = editingTodo.id

C3_Witness ==
    /\ Len(out) = 2 /\ out[1].type = "onSave"
    /\ "id" \in DOMAIN out[1].rec /\ out[1].rec.id = "t2"

\* a save in create mode: the record has no id
C3_WitnessCreate ==
    /\ Len(out) = 2 /\ out[1].type = "onSave"
    /\ "id" \notin DOMAIN out[1].rec /\ editingTodo = NoTodo

\* C4: in every record passed to onSave, completed is true exactly when the
\* status is 'completed'; completed is not a field of the form's state.
C4_CompletedDerived ==
    /\ DOMAIN formData = {"title", "description", "dueDate", "priority", "status"}
    /\ \A i \in 1..Len(out) : out[i].type = "onSave" =>
          (out[i].rec.completed <=> (out[i].rec.status = "completed"))

\* an entity that was completed is saved with another status
C4_Witness ==
    /\ Len(out) = 2 /\ out[1].type = "onSave"
    /\ "id" \in DOMAIN editingTodo /\ editingTodo.completed
    /\ out[1].rec.status = "pending" /\ ~out[1].rec.completed
\* the date part of a date string, as written
CalendarDate(s) == IF s = <<>> THEN <<>> ELSE <<s[1]>>

\* C5: open(E) followed at once by submit() gives a record with E's title,
\* description, due date (as a calendar date), priority and status, with
\* completed = (E.status = 'completed') and with E's id.
C5_OpenSubmitReturnsEntity ==
    [][ (OPEN /\ ~dirty /\ HasTodo(editingTodo)
            /\ ~Blank(editingTodo.title) /\ Submit) =>
              /\ Len(out') = 2
              /\ out'[1].type = "onSave"
              /\ out'[1].rec.title = editingTodo.title
              /\ out'[1].rec.description = editingTodo.description
              /\ out'[1].rec.dueDate = CalendarDate(editingTodo.dueDate)
              /\ out'[1].rec.priority = editingTodo.priority
              /\ out'[1].rec.status = editingTodo.status
              /\ out'[1].rec.completed = (editingTodo.status = "completed")
              /\ out'[1].rec.id = editingTodo.id ]_vars

\* C6: when the controller has opened with no entity, the form has the
\* default values, whatever was opened, edited, cancelled or saved before.
C6_CreateOpensWithDefaults ==
    (OPEN /\ ~HasTodo(editingTodo) /\ ~dirty) =>
        formData = [title |-> <<>>, description |-> <<>>, dueDate |-> <<>>,
                    priority |-> "medium", status |-> "pending"]

\* opened for creation after a session whose edits were dropped
C6_Witness ==
    /\ OPEN /\ ~HasTodo(editingTodo) /\ ~dirty
    /\ discarded = "reopened"

\* C7: the form an open(E) produces is the seeding of E alone, so that
\* open(E), edits, cancel(), open(E) gives the same form both times: nothing
\* of the dropped edits is left in the second.
C7_ReopenSeedsAgain ==
    (OPEN /\ HasTodo(editingTodo) /\ ~dirty) =>
        formData = seedFormData(editingTodo)

\* E is open again after a cancel that dropped edits made to E
C7_Witness ==
    /\ OPEN /\ HasTodo(editingTodo) /\ ~dirty
    /\ discarded = "reopened"

DismissClick == \E t \in {"close-btn", "cancel-btn", "overlay"} : Click(t)
Dismiss == DismissClick \/ KeyDown("Escape")

\* C8: while open, the close control, the cancel control, a click on the
\* overlay and the Escape key each call onClose, never onSave, and leave
\* the form's fields as they are.
C8_DismissalOnlyCloses ==
    [][ /\ (isOpen /\ DismissClick) => out' = <<OnClose(onClose)>>
        /\ (OPEN /\ Dismiss) =>
              /\ out' = <<OnClose(onClose)>>
              /\ formData' = formData ]_vars

\* Escape was pressed on an edited form
C8_Witness ==
    /\ ev = "Escape" /\ ~isOpen /\ out = <<OnClose(onClose)>>
    /\ dirty /\ formData.title = <<"a">> /\ formData.priority = "low"

\* C9: every step that takes the controller from open to closed calls
\* onClose, and a save is always followed by onClose and the close.
C9_CloseCallsOnClose ==
    [][ /\ (mounted /\ isOpen /\ ~isOpen') => NumCalls(out', "onClose") >= 1
        /\ (out' # <<>> /\ NumCalls(out', "onSave") >= 1) =>
              /\ out'[Len(out')].type = "onClose"
              /\ ~isOpen' ]_vars

\* closed by the save of an edited entity
C9_Witness ==
    /\ ~isOpen /\ HasTodo(editingTodo)
    /\ NumCalls(out, "onSave") = 1 /\ out[Len(out)] = OnClose(onClose)

\* C10: a dismissal trigger that comes when the controller is closed
\* already saves nothing and leaves it closed with the same form; once the
\* close is complete it calls nothing and changes no state.
C10_SecondCloseNoOp ==
    [][ (mounted /\ ~isOpen /\ Dismiss) =>
              /\ NumCalls(out', "onSave") = 0
              /\ ~isOpen'
              /\ formData' = formData
              /\ CLOSED =>
                    /\ out' = <<>>
                    /\ UNCHANGED <<mounted, isOpen, editingTodo, onClose,
                                   formData, seedPending, keyPending,
                                   listeners, ownListener, timers, focused,
                                   dirty, discarded>> ]_vars

\* Escape was pressed after a dismissal had closed the controller
C10_Witness ==
    /\ CLOSED /\ ev = "Escape" /\ out = <<>> /\ discarded = "dropped"

\* C11: once an open for the editing of an entity has seeded the form and
\* nothing was typed, dueDate is the calendar date written in the entity's
\* dueDate (the empty string when that is empty), and priority and status
\* are the entity's.
C11_SeedKeepsCalendarDate ==
    (OPEN /\ HasTodo(editingTodo) /\ ~dirty) =>
        /\ formData.dueDate = CalendarDate(editingTodo.dueDate)
        /\ formData.priority = editingTodo.priority
        /\ formData.status = editingTodo.status

FieldValues(name) ==
    CASE name = "title" -> Titles
      [] name = "description" -> Descriptions
      [] name = "dueDate" -> PickedDates
      [] name = "priority" -> Priority
      [] name = "status" -> Status

\* C13: a change of one field of an open form whose seeding has run gives
\* the named field the new value and leaves the other four as they were,
\* calls neither onSave nor onClose and leaves the controller open.
C13_ChangeSetsOneField ==
    [][ (isOpen /\ ~seedPending) =>
          \A name \in FormFields : \A value \in FieldValues(name) :
              Change(name, value) =>
                  /\ formData'[name] = value
                  /\ \A f \in FormFields \ {name} : formData'[f] = formData[f]
                  /\ out' = <<>>
                  /\ isOpen' /\ mounted' ]_vars

\* the status of a filled form was set and nothing else has changed
C13_Witness ==
    /\ OPEN /\ dirty /\ out = <<>>
    /\ formData = [title |-> <<"a">>, description |-> <<>>,
                   dueDate |-> <<>>, priority |-> "medium",
                   status |-> "completed"]

\* C14: the step that opens the modal leaves the title without focus, and
\* the seeding effect of an open modal queues one timer task; the title
\* gets the focus only in the step of a timer task (or of the alert of a
\* rejected submit), never in the step of the open or of its effect; a
\* timer task that runs when the form is not rendered focuses nothing; a
\* modal that stays open has its title focused eventually.
C14_FocusDeferred ==
    /\ [][ /\ (~isOpen /\ isOpen') => ~focused'
           /\ (seedPending /\ isOpen /\ ~seedPending') => timers' = timers + 1
           /\ (~focused /\ focused') =>
                 (timers' < timers \/ out' = <<Alert>>)
           /\ (timers' < timers /\ ~(mounted /\ isOpen)) =>
                 (~focused' /\ formData' = formData) ]_vars
    /\ (mounted /\ isOpen) ~> (focused \/ ~(mounted /\ isOpen))

\* the timer of an open has run and the title of the untouched form has
\* the focus
C14_Witness ==
    /\ OPEN /\ focused /\ timers = 0 /\ ~dirty /\ out = <<>>
    /\ HasTodo(editingTodo)

\* C15: a click on the content of the open modal, outside its buttons,
\* calls nothing and leaves the modal open: it does not reach the handler
\* of the overlay; a click on the close button or the cancel button calls
\* onClose exactly once.
C15_ContentClickStopsAtContent ==
    [][ (mounted /\ isOpen) =>
          /\ Click("content") => (out' = <<>> /\ isOpen' /\ formData' = formData)
          /\ (Click("close-btn") \/ Click("cancel-btn")) =>
                out' = <<OnClose(onClose)>> ]_vars

\* the content of the open form was clicked after the user had typed
C15_Witness ==
    /\ OPEN /\ ev = "content" /\ out = <<>> /\ dirty

\* C16: the form never has a field other than title, description, dueDate,
\* priority and status (no id, createdAt or updatedAt), and a record passed
\* to onSave, for a new todo or an edited one, has no createdAt and no
\* updatedAt: it has the five fields, completed and, when editing, id.
C16_NoTimestamps ==
    /\ DOMAIN formData \subseteq FormFields
    /\ FormFields \subseteq DOMAIN formData
    /\ \A i \in 1..Len(out) : out[i].type = "onSave" =>
          /\ {"createdAt", "updatedAt"} \cap DOMAIN out[i].rec = {}
          /\ DOMAIN out[i].rec \ {"id"} = FormFields \cup {"completed"}

\* an entity that has createdAt and updatedAt was edited and saved
C16_Witness ==
    /\ Len(out) = 2 /\ out[1].type = "onSave" /\ dirty
    /\ HasTodo(editingTodo) /\ "createdAt" \in DOMAIN editingTodo
    /\ "createdAt" \notin DOMAIN out[1].rec
    /\ "id" \in DOMAIN out[1].rec

\* a new todo was saved
C16_WitnessCreate ==
    /\ Len(out) = 2 /\ out[1].type = "onSave" /\ ~HasTodo(editingTodo)
    /\ DOMAIN out[1].rec = FormFields \cup {"completed"}

\* C17: while the modal stays open, a form that holds edits of the user
\* changes only in the step of a change event, and then in one field: no
\* other step (an effect after a parent re-render, a rejected submit, a new
\* callback) replaces it.
C17_EditsOnlyByChange ==
    [][ (mounted /\ isOpen /\ dirty /\ isOpen' /\ mounted'
            /\ formData' # formData) =>
          /\ Cardinality({f \in FormFields : formData'[f] # formData[f]}) = 1
          /\ ~seedPending
          /\ ChangeAny ]_vars

\* C18: a record that is saved for an entity when the user has typed
\* nothing since the modal was opened for it (or was switched to it) has
\* the id of that entity and, in the fields the seeding copies verbatim,
\* the values of that entity: never the values left in the form by an
\* earlier open or by another entity.
C18_RecordFromOwnEntity ==
    [][ (mounted /\ isOpen /\ HasTodo(editingTodo) /\ ~dirty
            /\ out' # <<>> /\ Saves(out')) =>
          /\ out'[1].rec.id = editingTodo.id
          /\ \A f \in {"title", "description", "priority", "status"} :
                out'[1].rec[f] = editingTodo[f] ]_vars

C19_WitnessUnmount ==
    /\ ~mounted /\ isOpen /\ onClose = 2 /\ listeners = EmptyBag

====
